---- MODULE Spec2Model ----
(***************************************************************************)
(* State-machine model of slack_to_sheet.py (SlackSheetsMonitor).          *)
(*                                                                         *)
(* Text values are sequences of one-token strings, so that slicing         *)
(* (text[:50]), concatenation (the f-string of _get_message_id) and        *)
(* joining (", ".join) are computed as the code computes them.             *)
(* hashlib.md5(...).hexdigest() is modelled as injective on its input:     *)
(* the fingerprint of a message is the string that is hashed.              *)
(***************************************************************************)
EXTENDS Integers, Sequences, FiniteSets, TLC

(* ------------------------------ bounds --------------------------------- *)

\* process kills (each followed by a new construction of the monitor)
MaxRestarts == 1

\* enrichment lookups (user, channel, permalink, thread) that fail
MaxLookupFailures == 1

(* ------------------------- program constants --------------------------- *)

TRIGGER_EMOJIS == {"form", "docgen", "relayflag", "box-apps", "box-sign"}

DEFAULT_CHANNEL_ID == <<"channel_ID">>

\* the slice bound of message.get('text', '')[:50]
PrefixLen == 50

\* the asyncio tasks that may run run_monitor_cycle on the one monitor object
Tasks == {1, 2}

\* main() awaits run_monitor_cycle from a single task
MainTask == 1

(* ------------------------- the modelled inputs -------------------------- *)

\* reaction names that occur on messages ("tada" is not a trigger)
ReactionLists ==
    { <<>>, <<"tada">>, <<"tada", "form">>,
      <<"form", "tada", "docgen">> }

UserId == <<"U", "7">>

ShortText == <<"h", "i">>

\* 51 characters: one more than the fingerprint keeps
LongText == [i \in 1..51 |-> IF i = 51 THEN "z" ELSE "x"]

\* the messages that get posted to the channel (the channel holds at most
\* these): the body of the first, of the second
Bodies == <<ShortText, LongText>>

BodyOf(k) == Bodies[k]

DigitChars == <<"0", "1", "2", "3", "4", "5", "6", "7", "8", "9">>

RECURSIVE ToDigits(_)
ToDigits(n) ==
    IF n < 10 THEN <<DigitChars[n + 1]>>
    ELSE ToDigits(n \div 10) \o <<DigitChars[(n % 10) + 1]>>

\* the ts of a thread's parent message, which is older than the messages
\* the channel history holds
ParentTs == <<"0">>

\* the first message is a reply in that thread, shown in the channel; the
\* others are top-level messages without thread_ts
ThreadTsOf(k) == IF k = 1 THEN ParentTs ELSE <<>>

\* Slack gives the k-th message of a channel its own ts
Message(k, reactions) ==
    [ts |-> ToDigits(k), thread_ts |-> ThreadTsOf(k), user |-> UserId,
     text |-> BodyOf(k), reactions |-> reactions]

\* what conversations_replies answers for the thread: the parent, then the
\* replies, the first message of the channel among them
ThreadMessages ==
    <<[ts |-> ParentTs, text |-> <<"p", "a">>],
      [ts |-> ToDigits(1), text |-> BodyOf(1)],
      [ts |-> <<"8">>, text |-> <<"o", "k">>],
      [ts |-> <<"9">>, text |-> <<"n", "o">>]>>

(* ------------------------------ helpers -------------------------------- *)

Take(s, n) == SubSeq(s, 1, IF Len(s) < n THEN Len(s) ELSE n)

\* C18, faulty variant: the reactions are part of what is hashed
GetMessageIdWithReactions(message) ==
    message.ts \o <<"-">> \o message.user \o <<"-">>
        \o Take(message.text, PrefixLen) \o message.reactions

\* _get_message_id: f"{ts}-{user}-{text[:50]}", then md5 (injective here)
GetMessageId(message) ==
    message.ts \o <<"-">> \o message.user \o <<"-">>
        \o Take(message.text, PrefixLen)

\* C7, faulty variant: every reaction name is taken for a trigger
AllReactionNames(reactions) == reactions

RECURSIVE FilterTriggers(_)
FilterTriggers(reactions) ==
    IF reactions = <<>> THEN <<>>
    ELSE IF Head(reactions) \in TRIGGER_EMOJIS
         THEN <<Head(reactions)>> \o FilterTriggers(Tail(reactions))
         ELSE FilterTriggers(Tail(reactions))

\* has_trigger_emoji: the reaction names in TRIGGER_EMOJIS, in reaction order
HasTriggerEmoji(message) == FilterTriggers(message.reactions)

\* sep.join(parts)
RECURSIVE Join(_, _)
Join(parts, sep) ==
    IF parts = <<>> THEN <<>>
    ELSE IF Len(parts) = 1 THEN <<Head(parts)>>
    ELSE <<Head(parts), sep>> \o Join(Tail(parts), sep)

DigitValue(c) == CHOOSE d \in 0..9 : DigitChars[d + 1] = c

IsDigit(c) == \E d \in 0..9 : DigitChars[d + 1] = c

RECURSIVE DigitsValue(_)
DigitsValue(s) ==
    IF s = <<>> THEN 0
    ELSE DigitsValue(SubSeq(s, 1, Len(s) - 1)) * 10 + DigitValue(s[Len(s)])

\* float(timestamp) raises on a string that is no number
Parsable(ts) == ts # <<>> /\ \A i \in 1..Len(ts) : IsDigit(ts[i])

TwoDigits(n) == <<DigitChars[(n \div 10) + 1], DigitChars[(n % 10) + 1]>>

\* strftime("%Y-%m-%d %H:%M:%S UTC") of an instant within the first day
\* of the epoch
Strftime(secs) ==
    <<"1970-01-01", " ">> \o TwoDigits((secs \div 3600) % 24) \o <<":">>
        \o TwoDigits((secs \div 60) % 60) \o <<":">>
        \o TwoDigits(secs % 60) \o <<" ", "UTC">>

\* C17, faulty variant: a ts that cannot be parsed is shown as "Unknown"
FormatTimestampUnknown(ts) ==
    IF ts # <<>> /\ Parsable(ts) THEN Strftime(DigitsValue(ts))
    ELSE <<"Unknown">>

\* the "Format timestamp" block of fetch_new_triggered_messages
FormatTimestamp(ts) ==
    IF ts # <<>>
    THEN IF Parsable(ts) THEN Strftime(DigitsValue(ts)) ELSE ts
    ELSE <<"Unknown">>

\* the except branches of get_user_name / get_channel_name / get_permalink
\* return the raw id (the empty string for the permalink)
GetUserName(user_id, ok) == IF ok THEN <<"display_name">> ELSE user_id

GetChannelName(channel_id, ok) ==
    IF ok THEN <<"#", "name">> ELSE channel_id

GetPermalink(ts, ok) == IF ok THEN <<"https://permalink/">> \o ts ELSE <<>>

\* get_thread_replies: the thread's messages, or [] from its except branch
GetThreadReplies(thread_ts, ok) == IF ok THEN ThreadMessages ELSE <<>>

\* parent_text: the text of the first thread message, if there is one
ParentText(thread_messages) ==
    IF thread_messages # <<>> THEN thread_messages[1].text ELSE <<>>

\* the list comprehension over thread_messages[1:]: the texts of the
\* messages whose ts is not the reacted message's
RECURSIVE TextsExcept(_, _)
TextsExcept(msgs, ts) ==
    IF msgs = <<>> THEN <<>>
    ELSE IF Head(msgs).ts # ts
         THEN <<Head(msgs).text>> \o TextsExcept(Tail(msgs), ts)
         ELSE TextsExcept(Tail(msgs), ts)

ThreadReplies(message, thread_messages) ==
    IF thread_messages # <<>>
    THEN TextsExcept(Tail(thread_messages), message.ts)
    ELSE <<>>

\* sep.join(texts), the texts being sequences of characters
RECURSIVE JoinTexts(_, _)
JoinTexts(texts, sep) ==
    IF texts = <<>> THEN <<>>
    ELSE IF Len(texts) = 1 THEN Head(texts)
    ELSE Head(texts) \o <<sep>> \o JoinTexts(Tail(texts), sep)

\* the dict appended to new_triggered_messages; thread_messages is [] for a
\* message without thread_ts
Record(message, user_name, channel, permalink, thread_messages) ==
    [id |-> GetMessageId(message),
     timestamp |-> FormatTimestamp(message.ts),
     user |-> user_name,
     channel |-> channel,
     reacted_message_text |-> message.text,
     parent_message |-> ParentText(thread_messages),
     thread_replies |->
         JoinTexts(ThreadReplies(message, thread_messages), "\n"),
     link |-> permalink,
     trigger_emojis |-> Join(HasTriggerEmoji(message), ", ")]

\* the row append_to_sheet builds from one record: 8 ordered columns
Row(item) ==
    <<item.timestamp, item.user, item.channel, item.reacted_message_text,
      item.parent_message, item.thread_replies, item.link,
      item.trigger_emojis>>

\* C14, faulty variant: the rows are built from the last record to the first
RowsReversed(data) == [i \in 1..Len(data) |-> Row(data[Len(data) + 1 - i])]

Rows(data) == [i \in 1..Len(data) |-> Row(data[i])]

Headers ==
    <<<<"Timestamp">>, <<"User">>, <<"Channel">>, <<"Reacted Message Text">>,
      <<"Parent Message">>, <<"Thread Replies">>, <<"Link">>,
      <<"Trigger Emojis">>>>

\* the state file on disk
FileMissing == [kind |-> "missing", fps |-> {}]

\* an existing file json.load cannot parse (open(..., 'w') truncated it, or
\* the dump stopped part-way)
FileMalformed == [kind |-> "malformed", fps |-> {}]

FileOk(fps) == [kind |-> "ok", fps |-> fps]

\* C9, faulty variant: the state is read under a key the file does not hold
LoadStateWrongKey(f) == {}

\* _load_state, run on a fresh processed_messages = set()
LoadState(f) == IF f.kind = "ok" THEN f.fps ELSE {}

\* C3, faulty variant: the loop does not skip the messages already processed
RECURSIVE ScanFromIgnoringSeen(_, _, _)
ScanFromIgnoringSeen(msgs, i, seen) ==
    IF i > Len(msgs) THEN i
    ELSE IF HasTriggerEmoji(msgs[i]) # <<>> THEN i
    ELSE ScanFromIgnoringSeen(msgs, i + 1, seen)

\* the loop of fetch_new_triggered_messages between two awaits: skip
\* messages that are processed or carry no trigger; stop at the first one
\* that is accepted (its index), or past the end
RECURSIVE ScanFrom(_, _, _)
ScanFrom(msgs, i, seen) ==
    IF i > Len(msgs) THEN i
    ELSE IF GetMessageId(msgs[i]) \in seen THEN ScanFrom(msgs, i + 1, seen)
    ELSE IF HasTriggerEmoji(msgs[i]) # <<>> THEN i
    ELSE ScanFrom(msgs, i + 1, seen)

(* ------------------------------- state --------------------------------- *)

VARIABLES
    source,             \* the channel history, newest message first
    file,               \* STATE_FILE on disk
    sheet,              \* the rows of the sheet, top to bottom
    processed_messages, \* self.processed_messages
    pc,                 \* where each task's run_monitor_cycle stands
    messages,           \* per task: the fetched messages
    idx,                \* per task: the loop's position in messages
    channel_name,       \* per task: the channel name looked up once
    new_messages,       \* per task: new_triggered_messages
    ret,                \* per task: what its last run_monitor_cycle returned
    outcome,            \* per task: how its last cycle ended
    restarts,           \* process kills so far
    lookup_failures,    \* enrichment lookups that have failed so far
    lookup_limit,       \* how many enrichment lookups may fail in all
    batched,            \* the fingerprints this process has handed to
                        \* append_to_sheet
    init_file,          \* the state file as the first construction found it
    overlapped,         \* two cycles have been in progress at once
    cycles              \* cycles completed since the first construction
                        \* (counted up to 2)

vars ==
    <<source, file, sheet, processed_messages, pc, messages, idx,
      channel_name, new_messages, ret, outcome, restarts, lookup_failures,
      lookup_limit, batched, init_file, overlapped, cycles>>

locals == <<messages, idx, channel_name, new_messages>>

\* append_to_sheet and _save_state are synchronous: they hold the event loop
SyncPcs == {"header", "header_append", "data", "save_open", "save_write"}

Runnable(t) == pc[t] # "down" /\ \A u \in Tasks \ {t} : pc[u] \notin SyncPcs

\* the histories conversations_history may return at the start:
\* newest first, the k-th posted message at position Len - k + 1
SourcesOfLen(n) ==
    { s \in [1..n -> {Message(k, r) : k \in 1..n, r \in ReactionLists}] :
        \A i \in 1..n : s[i].ts = ToDigits(n - i + 1) }

InitSources == UNION {SourcesOfLen(n) : n \in 0..Len(Bodies)}

Fingerprints(s) == {GetMessageId(s[i]) : i \in 1..Len(s)}

\* the state file at the first construction: none yet, or the one an
\* earlier run wrote after it collected some of the messages
InitFiles(s) ==
    {FileMissing} \cup {FileOk(S) : S \in (SUBSET Fingerprints(s)) \ {{}}}

\* the ts values of the messages whose timestamp field is looked at: none
\* (message.get("ts", "") gives ""), strings float() raises on, and whole
\* seconds within the first day of the epoch
Timestamps ==
    { <<>>, <<"x">>, <<"1", "x">>, <<"7">>, <<"7", "5">>,
      <<"3", "6", "6", "1">> }

\* histories of one top-level message with such a ts
TimestampSources ==
    { <<[ts |-> ts, thread_ts |-> <<>>, user |-> UserId, text |-> ShortText,
         reactions |-> r]>> : ts \in Timestamps, r \in ReactionLists }

\* __init__: processed_messages = set(), then _load_state(); the channel
\* holds one of sources, and the services let at most limit enrichment
\* lookups fail
InitWith(sources, limit) ==
    /\ source \in sources
    /\ file \in InitFiles(source)
    /\ sheet = <<>>
    /\ processed_messages = LoadState(file)
    /\ pc = [t \in Tasks |-> "idle"]
    /\ messages = [t \in Tasks |-> <<>>]
    /\ idx = [t \in Tasks |-> 0]
    /\ channel_name = [t \in Tasks |-> <<>>]
    /\ new_messages = [t \in Tasks |-> <<>>]
    /\ ret = [t \in Tasks |-> 0]
    /\ outcome = [t \in Tasks |-> "none"]
    /\ restarts = 0
    /\ lookup_failures = 0
    /\ lookup_limit = limit
    /\ batched = {}
    /\ init_file = file
    /\ overlapped = FALSE
    /\ cycles = 0

Init == InitWith(InitSources, MaxLookupFailures)

\* the lookups of one cycle: get_channel_name once, and get_user_name,
\* get_permalink and get_thread_replies for each message
AllLookups == 1 + 3 * Len(Bodies)

\* the start when any lookup of a cycle may fail
LookupInit == InitWith(InitSources, AllLookups)

\* the start on a channel whose one message has any of Timestamps
TimestampInit == InitWith(TimestampSources, MaxLookupFailures)

(* --------------------------- run_monitor_cycle -------------------------- *)

\* run_monitor_cycle returns value; kind names the branch that returned.
\* The locals of the call are gone.
Return(t, value, kind) ==
    /\ pc' = [pc EXCEPT ![t] = "idle"]
    /\ ret' = [ret EXCEPT ![t] = value]
    /\ outcome' = [outcome EXCEPT ![t] = kind]
    /\ messages' = [messages EXCEPT ![t] = <<>>]
    /\ idx' = [idx EXCEPT ![t] = 0]
    /\ channel_name' = [channel_name EXCEPT ![t] = <<>>]
    /\ new_messages' = [new_messages EXCEPT ![t] = <<>>]
    /\ cycles' = IF cycles < 2 THEN cycles + 1 ELSE cycles

\* the call goes on to the step at position p
Goto(t, p) ==
    /\ pc' = [pc EXCEPT ![t] = p]
    /\ UNCHANGED <<ret, outcome, cycles>>

\* the loop stops at the await of the accepted message at position next, or
\* it ran to the end of messages: fetch_new_triggered_messages returns
\* collected and run_monitor_cycle goes on, without suspending, to
\* `if new_messages`
LoopTo(t, next, channel, collected) ==
    IF next <= Len(messages[t])
    THEN /\ Goto(t, "enrich")
         /\ idx' = [idx EXCEPT ![t] = next]
         /\ channel_name' = [channel_name EXCEPT ![t] = channel]
         /\ new_messages' = [new_messages EXCEPT ![t] = collected]
         /\ UNCHANGED <<messages, batched>>
    ELSE IF collected = <<>>
    THEN Return(t, 0, "nothing") /\ UNCHANGED batched
    ELSE /\ Goto(t, "header")
         /\ new_messages' = [new_messages EXCEPT ![t] = collected]
         /\ batched' = batched \cup { collected[i].id :
                                         i \in 1..Len(collected) }
         /\ messages' = [messages EXCEPT ![t] = <<>>]
         /\ idx' = [idx EXCEPT ![t] = 0]
         /\ channel_name' = [channel_name EXCEPT ![t] = <<>>]

\* conversations_history answers with the channel's messages
FetchOk(t) ==
    /\ pc[t] = "idle" /\ Runnable(t)
    /\ Goto(t, "channel")
    /\ messages' = [messages EXCEPT ![t] = source]
    /\ overlapped' = (overlapped \/ \E u \in Tasks \ {t} : pc[u] # "idle")
    /\ UNCHANGED <<source, file, sheet, processed_messages, idx,
                   channel_name, new_messages, restarts, lookup_failures,
                   init_file, lookup_limit, batched>>

\* C6, faulty variant: the failed fetch is handled by starting over with
\* an empty set of processed messages
FetchFailForgets(t) ==
    /\ pc[t] = "idle" /\ Runnable(t)
    /\ Return(t, 0, "fetch_failed")
    /\ processed_messages' = {}
    /\ UNCHANGED <<source, file, sheet, restarts, lookup_failures, init_file,
                   lookup_limit, batched, overlapped>>

\* conversations_history answers not ok, or raises: return [] and, in
\* run_monitor_cycle, return 0
FetchFail(t) ==
    /\ pc[t] = "idle" /\ Runnable(t)
    /\ Return(t, 0, "fetch_failed")
    /\ UNCHANGED <<source, file, sheet, processed_messages, restarts,
                   lookup_failures, init_file, lookup_limit, batched,
                   overlapped>>

\* how many of the lookups failed
Failed(answers) == Cardinality({i \in 1..Len(answers) : ~answers[i]})

\* get_channel_name resumes (its lookup succeeded or not), then the loop
\* runs up to the first accepted message's await, or to its end
ChannelName(t) ==
    /\ pc[t] = "channel" /\ Runnable(t)
    /\ \E ok \in BOOLEAN :
         /\ lookup_failures + Failed(<<ok>>) <= lookup_limit
         /\ lookup_failures' = lookup_failures + Failed(<<ok>>)
         /\ LoopTo(t, ScanFrom(messages[t], 1, processed_messages),
                   GetChannelName(DEFAULT_CHANNEL_ID, ok), <<>>)
    /\ UNCHANGED <<source, file, sheet, processed_messages, restarts,
                   init_file, lookup_limit, overlapped>>

\* C10, faulty variant: the collected message is not marked as processed
EnrichWithoutMark(t) ==
    /\ pc[t] = "enrich" /\ Runnable(t)
    /\ \E user_ok \in BOOLEAN, link_ok \in BOOLEAN, thread_ok \in BOOLEAN :
         LET message == messages[t][idx[t]]
             answers == <<user_ok, link_ok, thread_ok>>
             record == Record(message,
                              GetUserName(message.user, user_ok),
                              channel_name[t],
                              GetPermalink(message.ts, link_ok),
                              IF message.thread_ts # <<>>
                              THEN GetThreadReplies(message.thread_ts,
                                                    thread_ok)
                              ELSE <<>>)
         IN /\ message.thread_ts = <<>> => thread_ok
            /\ lookup_failures + Failed(answers) <= lookup_limit
            /\ lookup_failures' = lookup_failures + Failed(answers)
            /\ LoopTo(t, ScanFrom(messages[t], idx[t] + 1,
                                  processed_messages),
                      channel_name[t], Append(new_messages[t], record))
    /\ UNCHANGED <<source, file, sheet, processed_messages, restarts,
                   init_file, lookup_limit, overlapped>>

\* C20, faulty variant: the messages the loop passed over are marked
\* processed along with the collected one
EnrichMarksFetched(t) ==
    /\ pc[t] = "enrich" /\ Runnable(t)
    /\ \E user_ok \in BOOLEAN, link_ok \in BOOLEAN, thread_ok \in BOOLEAN :
         LET message == messages[t][idx[t]]
             answers == <<user_ok, link_ok, thread_ok>>
             record == Record(message,
                              GetUserName(message.user, user_ok),
                              channel_name[t],
                              GetPermalink(message.ts, link_ok),
                              IF message.thread_ts # <<>>
                              THEN GetThreadReplies(message.thread_ts,
                                                    thread_ok)
                              ELSE <<>>)
             seen == processed_messages
                         \cup { GetMessageId(messages[t][i]) :
                                  i \in 1..idx[t] }
         IN /\ message.thread_ts = <<>> => thread_ok
            /\ lookup_failures + Failed(answers) <= lookup_limit
            /\ lookup_failures' = lookup_failures + Failed(answers)
            /\ processed_messages' = seen
            /\ LoopTo(t, ScanFrom(messages[t], idx[t] + 1, seen),
                      channel_name[t], Append(new_messages[t], record))
    /\ UNCHANGED <<source, file, sheet, restarts, init_file, lookup_limit,
                   overlapped>>

\* C16, faulty variant: a message with a failed lookup is marked processed
\* but gets no record
EnrichDropsOnFailure(t) ==
    /\ pc[t] = "enrich" /\ Runnable(t)
    /\ \E user_ok \in BOOLEAN, link_ok \in BOOLEAN, thread_ok \in BOOLEAN :
         LET message == messages[t][idx[t]]
             answers == <<user_ok, link_ok, thread_ok>>
             record == Record(message,
                              GetUserName(message.user, user_ok),
                              channel_name[t],
                              GetPermalink(message.ts, link_ok),
                              IF message.thread_ts # <<>>
                              THEN GetThreadReplies(message.thread_ts,
                                                    thread_ok)
                              ELSE <<>>)
             seen == processed_messages \cup {GetMessageId(message)}
         IN /\ message.thread_ts = <<>> => thread_ok
            /\ lookup_failures + Failed(answers) <= lookup_limit
            /\ lookup_failures' = lookup_failures + Failed(answers)
            /\ processed_messages' = seen
            /\ LoopTo(t, ScanFrom(messages[t], idx[t] + 1, seen),
                      channel_name[t],
                      IF Failed(answers) = 0
                      THEN Append(new_messages[t], record)
                      ELSE new_messages[t])
    /\ UNCHANGED <<source, file, sheet, restarts, init_file, lookup_limit,
                   overlapped>>

\* the lookups of the accepted message resume (get_user_name,
\* get_permalink, and get_thread_replies if the message has a thread_ts):
\* the record is appended, the message marked processed, and the loop runs
\* on to the next accepted message's await, or to its end
Enrich(t) ==
    /\ pc[t] = "enrich" /\ Runnable(t)
    /\ \E user_ok \in BOOLEAN, link_ok \in BOOLEAN, thread_ok \in BOOLEAN :
         LET message == messages[t][idx[t]]
             answers == <<user_ok, link_ok, thread_ok>>
             record == Record(message,
                              GetUserName(message.user, user_ok),
                              channel_name[t],
                              GetPermalink(message.ts, link_ok),
                              IF message.thread_ts # <<>>
                              THEN GetThreadReplies(message.thread_ts,
                                                    thread_ok)
                              ELSE <<>>)
             seen == processed_messages \cup {GetMessageId(message)}
         IN /\ message.thread_ts = <<>> => thread_ok
            /\ lookup_failures + Failed(answers) <= lookup_limit
            /\ lookup_failures' = lookup_failures + Failed(answers)
            /\ processed_messages' = seen
            /\ LoopTo(t, ScanFrom(messages[t], idx[t] + 1, seen),
                      channel_name[t], Append(new_messages[t], record))
    /\ UNCHANGED <<source, file, sheet, restarts, init_file, lookup_limit,
                   overlapped>>

\* the cycle is left at one of the awaits of fetch_new_triggered_messages
\* and never resumed (the event loop is stopped, or the coroutine is
\* closed): its locals are dropped, nothing it did to the monitor object is
\* undone, and run_monitor_cycle returns no value
Abandon(t) ==
    /\ pc[t] \in {"channel", "enrich"} /\ Runnable(t)
    /\ pc' = [pc EXCEPT ![t] = "idle"]
    /\ outcome' = [outcome EXCEPT ![t] = "abandoned"]
    /\ messages' = [messages EXCEPT ![t] = <<>>]
    /\ idx' = [idx EXCEPT ![t] = 0]
    /\ channel_name' = [channel_name EXCEPT ![t] = <<>>]
    /\ new_messages' = [new_messages EXCEPT ![t] = <<>>]
    /\ UNCHANGED <<source, file, sheet, processed_messages, ret, restarts,
                   lookup_failures, init_file, lookup_limit, batched,
                   overlapped, cycles>>

(* ----------------------------- append_to_sheet -------------------------- *)

\* values().get(range A1:H1): the first row, if the sheet has one
FirstRowValues == IF sheet = <<>> THEN <<>> ELSE <<sheet[1]>>

\* a step inside append_to_sheet or _save_state that goes on to position p
Step(t, p) ==
    /\ Goto(t, p)
    /\ UNCHANGED locals

\* append_to_sheet returned False: run_monitor_cycle returns 0
AppendFalse(t) == Return(t, 0, "append_failed")

\* the read of A1:H1: it answers, raises HttpError (caught by the inner
\* except: pass), or raises something else (caught by the outer except)
HeaderRead(t) ==
    /\ pc[t] = "header"
    /\ \E answer \in {"ok", "http_error", "error"} :
         IF answer = "error" THEN AppendFalse(t)
         ELSE IF answer = "ok" /\ FirstRowValues = <<>>
         THEN Step(t, "header_append")
         ELSE Step(t, "data")
    /\ UNCHANGED <<source, file, sheet, processed_messages, restarts,
                   lookup_failures, init_file, lookup_limit, batched,
                   overlapped>>

\* the append of the header row
HeaderAppend(t) ==
    /\ pc[t] = "header_append"
    /\ \E answer \in {"ok", "http_error", "error"} :
         IF answer = "error" THEN AppendFalse(t) /\ UNCHANGED sheet
         ELSE /\ Step(t, "data")
              /\ sheet' = IF answer = "ok" THEN Append(sheet, Headers)
                          ELSE sheet
    /\ UNCHANGED <<source, file, processed_messages, restarts,
                   lookup_failures, init_file, lookup_limit, batched,
                   overlapped>>

\* C19, faulty variant: when the append fails the records' fingerprints are
\* taken out of processed_messages again
DataAppendUnmarksOnFailure(t) ==
    /\ pc[t] = "data"
    /\ \E ok \in BOOLEAN :
         IF ok
         THEN /\ sheet' = sheet \o Rows(new_messages[t])
              /\ Step(t, "save_open")
              /\ UNCHANGED processed_messages
         ELSE /\ AppendFalse(t)
              /\ processed_messages' =
                     processed_messages
                         \ { new_messages[t][i].id :
                               i \in 1..Len(new_messages[t]) }
              /\ UNCHANGED sheet
    /\ UNCHANGED <<source, file, restarts, lookup_failures, init_file,
                   lookup_limit, batched, overlapped>>

\* C12, faulty variant: _save_state is entered whatever append_to_sheet
\* returned
DataAppendSavesAnyway(t) ==
    /\ pc[t] = "data"
    /\ \E ok \in BOOLEAN :
         /\ sheet' = IF ok THEN sheet \o Rows(new_messages[t]) ELSE sheet
         /\ Step(t, "save_open")
    /\ UNCHANGED <<source, file, processed_messages, restarts,
                   lookup_failures, init_file, lookup_limit, batched,
                   overlapped>>

\* the append of the data rows: on success append_to_sheet returns True and
\* run_monitor_cycle enters _save_state
DataAppend(t) ==
    /\ pc[t] = "data"
    /\ \E ok \in BOOLEAN :
         IF ok
         THEN /\ sheet' = sheet \o Rows(new_messages[t])
              /\ Step(t, "save_open")
         ELSE AppendFalse(t) /\ UNCHANGED sheet
    /\ UNCHANGED <<source, file, processed_messages, restarts,
                   lookup_failures, init_file, lookup_limit, batched,
                   overlapped>>

(* ------------------------------- _save_state ---------------------------- *)

\* C13, faulty variant: the cycle returns the number of rows in the sheet
SavedCountsSheet(t) == Return(t, Len(sheet), "appended")

\* whatever _save_state did, run_monitor_cycle returns len(new_messages)
Saved(t) == Return(t, Len(new_messages[t]), "appended")

\* open(STATE_FILE, 'w') truncates the file; if it raises, the except
\* prints and the file is as it was
SaveOpen(t) ==
    /\ pc[t] = "save_open"
    /\ \E ok \in BOOLEAN :
         IF ok
         THEN file' = FileMalformed /\ Step(t, "save_write")
         ELSE UNCHANGED file /\ Saved(t)
    /\ UNCHANGED <<source, sheet, processed_messages, restarts,
                   lookup_failures, init_file, lookup_limit, batched,
                   overlapped>>

\* C15, faulty variant: only the fingerprints collected in this cycle are
\* written
SaveWriteOnlyNew(t) ==
    /\ pc[t] = "save_write"
    /\ \E ok \in BOOLEAN :
         /\ file' = IF ok
                    THEN FileOk({ new_messages[t][i].id :
                                    i \in 1..Len(new_messages[t]) })
                    ELSE file
         /\ Saved(t)
    /\ UNCHANGED <<source, sheet, processed_messages, restarts,
                   lookup_failures, init_file, lookup_limit, batched,
                   overlapped>>

\* json.dump writes the state; if it raises part-way, the except prints and
\* the file stays cut short
SaveWrite(t) ==
    /\ pc[t] = "save_write"
    /\ \E ok \in BOOLEAN :
         /\ file' = IF ok THEN FileOk(processed_messages) ELSE file
         /\ Saved(t)
    /\ UNCHANGED <<source, sheet, processed_messages, restarts,
                   lookup_failures, init_file, lookup_limit, batched,
                   overlapped>>

(* --------------------------- process and channel ------------------------ *)

\* the process is killed: everything in memory is gone
Crash ==
    /\ \E t \in Tasks : pc[t] # "down"
    /\ restarts < MaxRestarts
    /\ restarts' = restarts + 1
    /\ pc' = [t \in Tasks |-> "down"]
    /\ processed_messages' = {}
    /\ batched' = {}
    /\ messages' = [t \in Tasks |-> <<>>]
    /\ idx' = [t \in Tasks |-> 0]
    /\ channel_name' = [t \in Tasks |-> <<>>]
    /\ new_messages' = [t \in Tasks |-> <<>>]
    /\ ret' = [t \in Tasks |-> 0]
    /\ outcome' = [t \in Tasks |-> "none"]
    /\ UNCHANGED <<source, file, sheet, lookup_failures, init_file,
                   lookup_limit, overlapped, cycles>>

\* the process is started again: __init__ runs _load_state
Start ==
    /\ \A t \in Tasks : pc[t] = "down"
    /\ pc' = [t \in Tasks |-> "idle"]
    /\ processed_messages' = LoadState(file)
    /\ UNCHANGED <<source, file, sheet, locals, ret, outcome, restarts,
                   lookup_failures, init_file, lookup_limit, batched,
                   overlapped, cycles>>

\* somebody posts a message to the channel
Post ==
    /\ Len(source) < Len(Bodies)
    /\ source' = <<Message(Len(source) + 1, <<>>)>> \o source
    /\ UNCHANGED <<file, sheet, processed_messages, pc, locals, ret, outcome,
                   restarts, lookup_failures, init_file, lookup_limit,
                   batched, overlapped, cycles>>

\* somebody adds a reaction to a message: Slack lists it after the others
React ==
    /\ \E i \in 1..Len(source), r \in ReactionLists :
         /\ Len(r) = Len(source[i].reactions) + 1
         /\ SubSeq(r, 1, Len(r) - 1) = source[i].reactions
         /\ source' = [source EXCEPT ![i].reactions = r]
    /\ UNCHANGED <<file, sheet, processed_messages, pc, locals, ret, outcome,
                   restarts, lookup_failures, init_file, lookup_limit,
                   batched, overlapped, cycles>>

(* ---------------------------- specifications ---------------------------- *)

CycleStep(t) ==
    \/ FetchOk(t)
    \/ FetchFail(t)
    \/ ChannelName(t)
    \/ Enrich(t)
    \/ HeaderRead(t)
    \/ HeaderAppend(t)
    \/ DataAppend(t)
    \/ SaveOpen(t)
    \/ SaveWrite(t)

\* one task runs the cycles, as main() does; the process may be killed and
\* started again, and the channel changes
Next ==
    \/ CycleStep(MainTask)
    \/ Crash
    \/ Start
    \/ Post
    \/ React

Spec == Init /\ [][Next]_vars

\* one process that is never killed: the one task runs the cycles and the
\* channel changes
ProcessNext ==
    \/ CycleStep(MainTask)
    \/ Post
    \/ React

ProcessSpec == Init /\ [][ProcessNext]_vars

\* the steps of a cycle that a service answers without an error
HeaderReadOk(t) == HeaderRead(t) /\ pc'[t] # "idle"

HeaderAppendOk(t) == HeaderAppend(t) /\ pc'[t] # "idle"

DataAppendOk(t) == DataAppend(t) /\ pc'[t] # "idle"

\* cycle after cycle on a channel that does not change, in one process
StableNext == CycleStep(MainTask)

\* the scheduler keeps running cycles, and a service that is called again
\* and again answers without an error again and again
StableSpec ==
    /\ Init
    /\ [][StableNext]_vars
    /\ WF_vars(CycleStep(MainTask))
    /\ SF_vars(FetchOk(MainTask))
    /\ SF_vars(HeaderReadOk(MainTask))
    /\ SF_vars(HeaderAppendOk(MainTask))
    /\ SF_vars(DataAppendOk(MainTask))

\* cycles of one task in one process, any of which may be left at an await
CancelNext ==
    \/ CycleStep(MainTask)
    \/ Abandon(MainTask)

CancelSpec == Init /\ [][CancelNext]_vars

\* cycles of one task on an unchanging channel, with no limit on which of
\* a cycle's lookups fail
LookupSpec == LookupInit /\ [][StableNext]_vars

\* cycles of one task on a channel whose one message has any of Timestamps
TimestampSpec == TimestampInit /\ [][StableNext]_vars

\* two tasks run cycles on the one monitor object, interleaved at their
\* awaits, in one process
ConcNext == \E t \in Tasks : CycleStep(t)

ConcSpec == Init /\ [][ConcNext]_vars

(* ------------------------- vocabulary of the claims --------------------- *)

IsTrigger(name) == name \in TRIGGER_EMOJIS

\* the reaction names of a message that are triggers, in the message's order
MatchingNames(message) == SelectSeq(message.reactions, IsTrigger)

\* the fingerprints the first construction loaded
InitFps == IF init_file.kind = "ok" THEN init_file.fps ELSE {}

\* the data rows of the sheet that were written for a message
RowsFor(message) ==
    { j \in 1..Len(sheet) :
        /\ sheet[j] # Headers
        /\ sheet[j][1] = FormatTimestamp(message.ts)
        /\ sheet[j][4] = message.text }

DataRows == {j \in 1..Len(sheet) : sheet[j] # Headers}

HeaderRows == {j \in 1..Len(sheet) : sheet[j] = Headers}

\* a message of the channel that carries a trigger and was not seen at the
\* start
Qualifies(message) ==
    MatchingNames(message) # <<>> /\ GetMessageId(message) \notin InitFps

Up == \A t \in Tasks : pc[t] # "down"

\* the step is the return of task t's cycle
Returns(t) == pc[t] \notin {"idle", "down"} /\ pc'[t] = "idle"

(* ------------------------------- claims --------------------------------- *)

\* C1: when the sheet append of a cycle returns false, no fingerprint of an
\* item collected in that cycle is in the seen set once the cycle has
\* returned.
C1_AppendFalseLeavesUnseen ==
    [][\A t \in Tasks :
         (Returns(t) /\ outcome'[t] = "append_failed")
             => \A i \in 1..Len(new_messages[t]) :
                    new_messages[t][i].id \notin processed_messages']_vars

\* C2: every message of the (unchanging) channel that carries a trigger and
\* was not seen at the start eventually has a row in the sheet, when cycles
\* keep running and the services fail only finitely often.
C2_EventuallyDelivered ==
    \A i \in 1..Len(Bodies) :
        (i <= Len(source) /\ Qualifies(source[i]))
            ~> (i <= Len(source) /\ RowsFor(source[i]) # {})

\* C3: on an unchanged channel, after a first cycle that ran without a
\* service failure every qualifying message has exactly one row and every
\* other message none; the second cycle leaves the sheet as it is and
\* returns 0.
C3_Idempotent ==
    /\ [](( /\ pc[MainTask] = "idle"
            /\ cycles = 1
            /\ outcome[MainTask] \in {"appended", "nothing"} )
          => \A i \in 1..Len(source) :
                Cardinality(RowsFor(source[i]))
                    = IF Qualifies(source[i]) THEN 1 ELSE 0)
    /\ [][( /\ cycles = 1
            /\ outcome[MainTask] \in {"appended", "nothing"} )
          => ( /\ sheet' = sheet
               /\ Returns(MainTask) => ret'[MainTask] = 0 )]_vars

\* C3 witness: a second cycle has returned 0 with nothing to append, the
\* sheet holding the one row of a qualifying message.
C3_Witness ==
    /\ pc[MainTask] = "idle" /\ cycles = 2
    /\ outcome[MainTask] = "nothing" /\ ret[MainTask] = 0
    /\ \E i \in 1..Len(source) :
         Qualifies(source[i]) /\ Cardinality(RowsFor(source[i])) = 1

\* C4: every fingerprint in the state file, other than those it held at the
\* start, belongs to a message whose row is in the sheet.
C4_PersistedWereDelivered ==
    file.kind = "ok"
        => \A fp \in file.fps \ InitFps :
              \E i \in 1..Len(source) :
                 GetMessageId(source[i]) = fp /\ RowsFor(source[i]) # {}

\* C5: after a crash the state file is the complete old state or a complete
\* new state, never a file cut short.
C5_AtomicPersist ==
    (\A t \in Tasks : pc[t] = "down")
        => (file = init_file \/ file.kind = "ok")

\* C6: a cycle whose fetch fails returns 0 and leaves the seen set, the state
\* file and the sheet as they were.
C6_FetchFailureMutatesNothing ==
    [][\A t \in Tasks :
         (pc[t] = "idle" /\ pc'[t] = "idle"
            /\ outcome'[t] = "fetch_failed")
             => /\ ret'[t] = 0
                /\ processed_messages' = processed_messages
                /\ file' = file
                /\ sheet' = sheet]_vars

\* C6 witness: a cycle ended on a failed fetch while the channel held a
\* message with a trigger that is not yet seen.
C6_Witness ==
    /\ pc[MainTask] = "idle" /\ outcome[MainTask] = "fetch_failed"
    /\ ret[MainTask] = 0
    /\ \E i \in 1..Len(source) :
         /\ MatchingNames(source[i]) # <<>>
         /\ GetMessageId(source[i]) \notin processed_messages

\* the trigger_emojis cell lists exactly names, in order, joined by ", "
ListsNames(cell, names) ==
    /\ Len(cell) = 2 * Len(names) - 1
    /\ \A k \in 1..Len(names) : cell[2 * k - 1] = names[k]
    /\ \A k \in 1..(Len(names) - 1) : cell[2 * k] = ", "

\* C7: the loop stops only at a message that carries a trigger and is not
\* seen; it passes over no such message; and the record it collects lists
\* exactly the message's trigger names in the message's order.
C7_TriggerFilter ==
    /\ [](pc[MainTask] = "enrich"
          => LET m == messages[MainTask][idx[MainTask]] IN
             /\ MatchingNames(m) # <<>>
             /\ GetMessageId(m) \notin processed_messages)
    /\ [][( /\ pc[MainTask] \in {"channel", "enrich"}
            /\ pc'[MainTask] \in {"enrich", "header", "idle"}
            /\ <<pc[MainTask], idx[MainTask]>>
                   # <<pc'[MainTask], idx'[MainTask]>> )
          => LET ms == messages[MainTask]
                 from == IF pc[MainTask] = "channel" THEN 1
                         ELSE idx[MainTask] + 1
                 to == IF pc'[MainTask] = "enrich" THEN idx'[MainTask]
                       ELSE Len(ms) + 1
             IN /\ \A j \in from..(to - 1) :
                      \/ MatchingNames(ms[j]) = <<>>
                      \/ GetMessageId(ms[j]) \in processed_messages'
                /\ pc[MainTask] = "enrich"
                     => LET m == ms[idx[MainTask]]
                            new == new_messages'[MainTask]
                        IN /\ Len(new) = Len(new_messages[MainTask]) + 1
                           /\ new[Len(new)].id = GetMessageId(m)
                           /\ ListsNames(new[Len(new)].trigger_emojis,
                                         MatchingNames(m))]_vars

\* C7 witness: a message with a non-trigger reaction between two triggers was
\* collected, its record listing the two triggers in the message's order.
C7_Witness ==
    /\ pc[MainTask] = "header"
    /\ \E i \in 1..Len(new_messages[MainTask]) :
         new_messages[MainTask][i].trigger_emojis = <<"form", ", ", "docgen">>

\* C8: the sheet holds the header row at most once, and when it holds a data
\* row its first row is the header row.
C8_HeaderOnceAndFirst ==
    /\ Cardinality(HeaderRows) <= 1
    /\ DataRows # {} => sheet[1] = Headers

\* C9: load always completes; the seen set it leaves is the persisted set
\* when the file is well-formed and empty when the file is missing or
\* malformed.
C9_LoadNeverFails ==
    /\ [](~Up => ENABLED Start)
    /\ [][(~Up /\ Up')
          => processed_messages' =
                 IF file.kind = "ok" THEN file.fps ELSE {}]_vars

\* C9 witness: the process was started again on a state file cut short (it
\* was well-formed at the first start) and runs with an empty seen set.
C9_Witness ==
    /\ restarts = 1 /\ Up /\ outcome[MainTask] = "none"
    /\ init_file.kind = "ok" /\ init_file.fps # {}
    /\ file.kind = "malformed"
    /\ processed_messages = {}

\* some message has two data rows
DoubleAppend ==
    \E i \in 1..Len(source) : Cardinality(RowsFor(source[i])) >= 2

\* C10: within one process a message gets a second row only if two cycles
\* have been in progress at once.
C10_DoubleAppendOnlyIfOverlapped == DoubleAppend => overlapped

\* C10 witness: two interleaved cycles have both appended a row for the same
\* message.
C10_Witness == DoubleAppend /\ overlapped

\* C11: when a cycle is left at an await before append_to_sheet is called,
\* none of the messages it had collected is in processed_messages, and the
\* state file is as it was.
C11_AbandonLeavesSeenSet ==
    [][\A t \in Tasks :
         (pc[t] \in {"channel", "enrich"} /\ outcome'[t] = "abandoned"
             /\ pc'[t] = "idle")
             => /\ \A i \in 1..Len(new_messages[t]) :
                     new_messages[t][i].id \notin processed_messages'
                /\ file' = file]_vars

\* the positions of a cycle inside _save_state
SavePcs == {"save_open", "save_write"}

\* the last n rows of the sheet
LastRows(n) == SubSeq(sheet, Len(sheet) - n + 1, Len(sheet))

\* C12: the state file changes only inside _save_state, a cycle is inside
\* _save_state only with the rows of its records just appended to the sheet,
\* and a cycle that returns after a failed fetch, with nothing collected or
\* after a failed append has not been there and leaves the file as it was.
C12_PersistOnlyAfterAppend ==
    /\ [][file' # file => \E t \in Tasks : pc[t] \in SavePcs]_vars
    /\ [](\A t \in Tasks :
            pc[t] \in SavePcs
                => /\ new_messages[t] # <<>>
                   /\ Len(sheet) >= Len(new_messages[t])
                   /\ LastRows(Len(new_messages[t]))
                          = [i \in 1..Len(new_messages[t])
                                |-> Row(new_messages[t][i])])
    /\ [][\A t \in Tasks :
            (Returns(t) /\ outcome'[t]
                 \in {"fetch_failed", "nothing", "append_failed"})
                => pc[t] \notin SavePcs /\ file' = file]_vars

\* C12 witness: a cycle whose append succeeded has returned and the state
\* file holds what it wrote.
C12_Witness ==
    /\ pc[MainTask] = "idle" /\ outcome[MainTask] = "appended"
    /\ file.kind = "ok" /\ file # init_file
    /\ file.fps = processed_messages

\* the positions in the channel of the messages that carry a trigger and
\* were not seen at the start
QualifyingPositions == { i \in 1..Len(source) : Qualifies(source[i]) }

\* C13: on an unchanging channel, once a cycle whose append succeeded has
\* returned, processed_messages is the set loaded at the start together with
\* the fingerprints of exactly the messages that carry a trigger and were
\* not in it, the sheet has one data row for each of them, and their number
\* is what the cycle returned.
C13_SuccessfulCycle ==
    (pc[MainTask] = "idle" /\ outcome[MainTask] = "appended")
        => /\ processed_messages
                 = InitFps \cup { GetMessageId(source[i]) :
                                     i \in QualifyingPositions }
           /\ Cardinality(DataRows) = Cardinality(QualifyingPositions)
           /\ ret[MainTask] = Cardinality(QualifyingPositions)

\* C13 witness: of two messages that carry a trigger one was seen at the
\* start; the cycle appended one row, returned 1, and both are seen.
C13_Witness ==
    /\ pc[MainTask] = "idle" /\ outcome[MainTask] = "appended"
    /\ ret[MainTask] = 1 /\ Cardinality(DataRows) = 1
    /\ \E i, j \in 1..Len(source) :
         /\ MatchingNames(source[i]) # <<>>
         /\ GetMessageId(source[i]) \in InitFps
         /\ RowsFor(source[i]) = {}
         /\ Qualifies(source[j]) /\ RowsFor(source[j]) # {}
         /\ {GetMessageId(source[i]), GetMessageId(source[j])}
                \subseteq processed_messages

\* the position in the channel history of the message with fingerprint id
PositionOf(id) ==
    CHOOSE i \in 1..Len(source) : GetMessageId(source[i]) = id

\* C14: on an unchanging channel, the records handed to append_to_sheet and
\* the rows it appends stand in the order in which their messages stand in
\* the fetched history.
C14_FetchOrder ==
    /\ \A k1, k2 \in 1..Len(new_messages[MainTask]) :
          k1 < k2 => PositionOf(new_messages[MainTask][k1].id)
                        < PositionOf(new_messages[MainTask][k2].id)
    /\ \A i1, i2 \in 1..Len(source) :
          i1 < i2 => \A j1 \in RowsFor(source[i1]), j2 \in RowsFor(source[i2]) :
                        j1 < j2

\* C14 witness: two messages were collected in one cycle and their two rows
\* appended, the row of the earlier-fetched message above the other.
C14_Witness ==
    /\ pc[MainTask] = "save_open" /\ Len(new_messages[MainTask]) = 2
    /\ \E j \in 1..(Len(sheet) - 1) :
         /\ j \in RowsFor(source[1])
         /\ j + 1 \in RowsFor(source[2])

\* C15: while the process lives no step takes a fingerprint out of
\* processed_messages; a readable state file holds no fingerprint the
\* running process does not hold; and a write that completes stores all of
\* processed_messages, which in the first process contains the set loaded at
\* the start.
C15_SeenSetGrows ==
    /\ [][(Up /\ Up') => processed_messages \subseteq processed_messages']_vars
    /\ []((Up /\ file.kind = "ok") => file.fps \subseteq processed_messages)
    /\ [][(file' # file /\ file'.kind = "ok")
            => /\ file'.fps = processed_messages
               /\ restarts = 0 => InitFps \subseteq file'.fps]_vars

\* C15 witness: a process that loaded a non-empty set has collected a
\* message and written a state file that holds the loaded set and more.
C15_Witness ==
    /\ restarts = 0 /\ InitFps # {}
    /\ file.kind = "ok" /\ file # init_file
    /\ InitFps \subseteq file.fps /\ file.fps # InitFps
    /\ file.fps \subseteq processed_messages

\* the messages of the channel that carry a trigger and were not seen at
\* the start, in the order of the history
QualifyingMessages == SelectSeq(source, Qualifies)

\* the records whose field was filled by the fallback of a failed lookup
FallbackFields(records) ==
    { <<k, "user">> : k \in { k \in 1..Len(records) :
                                 records[k].user = UserId } }
    \cup { <<k, "link">> : k \in { k \in 1..Len(records) :
                                     records[k].link = <<>> } }
    \cup { <<k, "thread">> :
             k \in { k \in 1..Len(records) :
                       /\ records[k].parent_message = <<>>
                       /\ \E i \in 1..Len(source) :
                            /\ GetMessageId(source[i]) = records[k].id
                            /\ source[i].thread_ts # <<>> } }
    \cup { <<k, "channel">> : k \in { k \in 1..Len(records) :
                                        /\ k = 1
                                        /\ records[k].channel
                                               = DEFAULT_CHANNEL_ID } }

\* C16: whichever lookups fail, the records handed to append_to_sheet are
\* those of the messages that carry a trigger and were not seen, in the
\* order of the history; user and channel are the looked-up name or the raw
\* id, the link the looked-up link or the empty string; and as many fields
\* hold a fallback as lookups have failed.
C16_LookupFailuresKeepRecords ==
    pc[MainTask] = "header"
        => LET records == new_messages[MainTask] IN
           /\ Len(records) = Len(QualifyingMessages)
           /\ \A k \in 1..Len(records) :
                 LET m == QualifyingMessages[k] IN
                 /\ records[k].id = GetMessageId(m)
                 /\ records[k].reacted_message_text = m.text
                 /\ records[k].user \in {<<"display_name">>, m.user}
                 /\ records[k].channel
                        \in {<<"#", "name">>, DEFAULT_CHANNEL_ID}
                 /\ records[k].channel = records[1].channel
                 /\ records[k].link
                        \in {<<"https://permalink/">> \o m.ts, <<>>}
           /\ Cardinality(FallbackFields(records)) = lookup_failures

\* C16 witness: every lookup of a cycle over two messages failed, and both
\* records are handed on with the raw ids and the empty link.
C16_Witness ==
    /\ pc[MainTask] = "header"
    /\ Len(new_messages[MainTask]) = 2
    /\ lookup_failures = 6
    /\ \A k \in 1..2 :
         /\ new_messages[MainTask][k].user = UserId
         /\ new_messages[MainTask][k].channel = DEFAULT_CHANNEL_ID
         /\ new_messages[MainTask][k].link = <<>>
         /\ new_messages[MainTask][k].parent_message = <<>>

\* the ts has a character that is no digit
HasNonDigit(ts) ==
    \E i \in 1..Len(ts) :
        ts[i] \notin {"0", "1", "2", "3", "4", "5", "6", "7", "8", "9"}

\* the UTC time of day of the whole-second ts values
FormattedUtc(ts) ==
    <<"1970-01-01", " ">>
        \o (CASE ts = <<"7">> -> <<"0", "0", ":", "0", "0", ":", "0", "7">>
              [] ts = <<"7", "5">>
                   -> <<"0", "0", ":", "0", "1", ":", "1", "5">>
              [] ts = <<"3", "6", "6", "1">>
                   -> <<"0", "1", ":", "0", "1", ":", "0", "1">>)
        \o <<" ", "UTC">>

\* C17 as stated: the timestamp field of a record is "Unknown" when the
\* message has no ts and when its ts cannot be parsed, and the formatted UTC
\* time otherwise.
C17_UnknownWhenUnparsable ==
    pc[MainTask] = "header"
        => LET ts == source[1].ts
               field == new_messages[MainTask][1].timestamp
           IN field = IF ts = <<>> \/ HasNonDigit(ts) THEN <<"Unknown">>
                      ELSE FormattedUtc(ts)

\* C17 amended: the timestamp field of a record is "Unknown" when the
\* message has no ts, the ts itself when it cannot be parsed, and the
\* formatted UTC time otherwise.
C17_RawWhenUnparsable ==
    pc[MainTask] = "header"
        => LET ts == source[1].ts
               field == new_messages[MainTask][1].timestamp
           IN field = IF ts = <<>> THEN <<"Unknown">>
                      ELSE IF HasNonDigit(ts) THEN ts
                      ELSE FormattedUtc(ts)

\* C17 witness: a message whose ts cannot be parsed was collected and its
\* record shows the ts as it came.
C17_Witness ==
    /\ pc[MainTask] = "header"
    /\ source[1].ts = <<"1", "x">>
    /\ new_messages[MainTask][1].timestamp = <<"1", "x">>

\* the message with other reactions and another body after its first 50
\* characters
Altered(message, reactions) ==
    [message EXCEPT !.reactions = reactions,
                    !.text = SubSeq(@, 1, IF Len(@) < 50 THEN Len(@)
                                          ELSE 50) \o <<"q">>]

\* the fingerprint of each message of the history s is the same with any
\* other reactions and with another body after the first 50 characters
SameWhateverReactions(s) ==
    \A i \in 1..Len(s), r \in ReactionLists :
        /\ GetMessageId([s[i] EXCEPT !.reactions = r]) = GetMessageId(s[i])
        /\ Len(s[i].text) > 50
               => GetMessageId(Altered(s[i], r)) = GetMessageId(s[i])

\* C18: the fingerprint of a message is the same whatever its reactions
\* and whatever its body holds after the first 50 characters, also after
\* somebody has added a reaction; and in one process no message that was
\* seen at the start or has a row in the sheet is collected, whatever
\* reactions it has gained.
C18_AnnotationInsensitive ==
    /\ SameWhateverReactions(source)
    /\ [][source' # source
            => /\ SameWhateverReactions(source')
               /\ \A i \in 1..Len(source) :
                     (Len(source') = Len(source)
                          /\ source'[i].ts = source[i].ts)
                         => GetMessageId(source'[i])
                               = GetMessageId(source[i])]_vars
    /\ []((restarts = 0 /\ pc[MainTask] \in {"enrich", "header"})
            => \A i \in 1..Len(source) :
                  (RowsFor(source[i]) # {}
                       \/ GetMessageId(source[i]) \in InitFps)
                      => /\ \A k \in 1..Len(new_messages[MainTask]) :
                               new_messages[MainTask][k].id
                                   # GetMessageId(source[i])
                         /\ pc[MainTask] = "enrich"
                              => messages[MainTask][idx[MainTask]].ts
                                     # source[i].ts)

\* C18 witness: the one message of the channel was seen at the start and
\* carries a trigger after a non-trigger reaction, and a cycle has returned
\* with nothing collected and no row written.
C18_Witness ==
    /\ restarts = 0 /\ Len(source) = 1
    /\ GetMessageId(source[1]) \in InitFps
    /\ source[1].reactions = <<"tada", "form">>
    /\ pc[MainTask] = "idle" /\ outcome[MainTask] = "nothing"
    /\ sheet = <<>>

\* C19: when the one task's cycle hands its records to append_to_sheet, no
\* two of them have the same fingerprint and none has a fingerprint this
\* process has handed over before, whatever failed in between; and while
\* the first process lives no message has more than one row.
C19_BatchedOnce ==
    /\ [][(pc[MainTask] \in {"channel", "enrich"}
              /\ pc'[MainTask] = "header")
            => LET batch == new_messages'[MainTask] IN
               /\ \A k \in 1..Len(batch) : batch[k].id \notin batched
               /\ \A k1, k2 \in 1..Len(batch) :
                     batch[k1].id = batch[k2].id => k1 = k2]_vars
    /\ [](restarts = 0
            => \A i \in 1..Len(source) :
                  Cardinality(RowsFor(source[i])) <= 1)

\* C19 witness: after a cycle whose append failed, the next cycle hands over
\* the one message that has come to qualify since, and not the message of
\* the failed batch.
C19_Witness ==
    /\ restarts = 0
    /\ pc[MainTask] = "header" /\ outcome[MainTask] = "append_failed"
    /\ Len(source) = 2 /\ Len(new_messages[MainTask]) = 1
    /\ Cardinality(batched) = 2
    /\ sheet = <<>>

\* C20: a fingerprint comes into the processed_messages of a running
\* process only for a fetched message that carries a trigger; in the first
\* process a message of the channel without a trigger is in it only if it
\* was loaded at the start; and when the loop has run through the fetched
\* messages, every one of them that carries a trigger and was not loaded at
\* the start is among those handed to append_to_sheet.
C20_UntriggeredStayUnseen ==
    /\ [][(Up /\ Up')
            => \A fp \in processed_messages' \ processed_messages :
                  \E i \in 1..Len(messages[MainTask]) :
                     /\ GetMessageId(messages[MainTask][i]) = fp
                     /\ MatchingNames(messages[MainTask][i]) # <<>>]_vars
    /\ [](restarts = 0
            => \A i \in 1..Len(source) :
                  (MatchingNames(source[i]) = <<>>
                       /\ GetMessageId(source[i]) \in processed_messages)
                      => GetMessageId(source[i]) \in InitFps)
    /\ [][(restarts' = 0 /\ pc[MainTask] \in {"channel", "enrich"}
              /\ pc'[MainTask] \in {"header", "idle"})
            => \A i \in 1..Len(messages[MainTask]) :
                  (MatchingNames(messages[MainTask][i]) # <<>>
                       /\ GetMessageId(messages[MainTask][i]) \notin InitFps)
                      => GetMessageId(messages[MainTask][i]) \in batched']_vars

\* C20 witness: with no state file, a cycle over the channel's one message
\* has collected nothing, and the next cycle hands the message, which
\* carries a trigger after a non-trigger reaction, to append_to_sheet.
C20_Witness ==
    /\ restarts = 0 /\ init_file = FileMissing
    /\ Len(source) = 1
    /\ source[1].reactions = <<"tada", "form">>
    /\ outcome[MainTask] = "nothing" /\ pc[MainTask] = "header"
    /\ Len(new_messages[MainTask]) = 1
    /\ new_messages[MainTask][1].id = GetMessageId(source[1])
    /\ GetMessageId(source[1]) \in batched

====
